---- MODULE Spec2Model ----
(***************************************************************************)
(* Model of backend/index.js: the npm-audit scan pipeline                  *)
(* (runScanForProject), the per-project history files (saveScanHistory,    *)
(* GET /scans/:projectName), the monitoring registry (monitoredProjects,   *)
(* POST /scan) and the periodic re-scan (the setInterval callback).        *)
(*                                                                         *)
(* Node runs one handler at a time.  A handler is atomic from one await to *)
(* the next, so every action below is the synchronous stretch of code      *)
(* between two awaits, continuations of the awaiting caller included.      *)
(*                                                                         *)
(* JS strings are sequences of one-character strings.  An optional value   *)
(* (a property that may be undefined) is <<>> when absent and <<v>> when   *)
(* present.  Timestamps (scannedAt, durationMs) are left out of the        *)
(* ScanResult: nothing in the program reads them.  Calls into the file     *)
(* system (mkdirSync, writeFileSync, rmSync) succeed; what varies is what  *)
(* the two npm processes answer and what the history files hold at start.  *)
(***************************************************************************)
EXTENDS Integers, Sequences, FiniteSets, TLC

VARIABLES
    files,              \* scan-history/<key>.json, per project key
    tmp,                \* the workspace directories that exist under .tmp
    monitoredProjects,  \* the Map, as its entry list in insertion order
    runs,               \* the runScanForProject calls in flight, by scanId
    ticks,              \* the setInterval callbacks in flight, by tick number
    nextId,             \* the next scan identifier uuidv4() hands out; 0: none left
    nextTick,           \* the number of the next timer firing; 0: none left
    alive,              \* FALSE once an error escaped a callback
    last,               \* the most recent handler completion (observation)
    lastTick,           \* the most recent finished tick (observation)
    appended            \* per project key, the results saveScanHistory was
                        \* handed, oldest first (observation)

vars == <<files, tmp, monitoredProjects, runs, ticks, nextId, nextTick,
          alive, last, lastTick, appended>>

\* ------------------------------------------------------------ bounds
(* Scan identifiers and tick numbers are handed out from the bound down to *)
(* 1, so none is handed out twice; at 0 no further scan or tick starts.    *)
MaxRuns == 2
MaxTicks == 1
HistRuns == 2
HistTicks == 1
SchedRuns == 4
SchedTicks == 2
SchedInFlight == 2
LiveRuns == 5
LiveTicks == 2
LiveInFlight == 1
ScoreRuns == 1
ExtractRuns == 1
KeyRuns == 1
KeyLen == 2
MaxCount == 4
ManyLow == 50

\* ------------------------------------------------------------ values
None == <<>>
Some(v) == <<v>>

UpperChars == <<"A","B","C","D","E","F","G","H","I","J","K","L","M",
                "N","O","P","Q","R","S","T","U","V","W","X","Y","Z">>
LowerChars == <<"a","b","c","d","e","f","g","h","i","j","k","l","m",
                "n","o","p","q","r","s","t","u","v","w","x","y","z">>
DigitChars == <<"0","1","2","3","4","5","6","7","8","9">>

Range(s) == {s[i] : i \in DOMAIN s}

\* String.prototype.toLowerCase
ToLowerChar(c) ==
    IF \E i \in DOMAIN UpperChars : UpperChars[i] = c
    THEN LowerChars[CHOOSE i \in DOMAIN UpperChars : UpperChars[i] = c]
    ELSE c

toLowerCase(s) == [i \in DOMAIN s |-> ToLowerChar(s[i])]

\* String.prototype.includes
includes(s, sub) ==
    \E i \in 0..(Len(s) - Len(sub)) : SubSeq(s, i + 1, i + Len(sub)) = sub

\* a value used as a condition: undefined and "" are falsy
Truthy(opt) == opt # None /\ opt[1] # <<>>

\* a || b on optional strings
OrElse(a, b) == IF Truthy(a) THEN a ELSE b

\* ------------------------------------------------------------ severity + risk
Critical == <<"c","r","i","t","i","c","a","l">>
High == <<"h","i","g","h">>
Moderate == <<"m","o","d","e","r","a","t","e">>
Medium == <<"m","e","d","i","u","m">>
Low == <<"l","o","w">>

\* variant: an unrecognized severity is handed back as it came, lower-cased
normalizeSeverityPassThrough(raw) ==
    IF ~Truthy(raw) THEN Low
    ELSE LET s == toLowerCase(raw[1])
         IN  IF includes(s, Critical) THEN Critical
             ELSE IF includes(s, High) THEN High
             ELSE IF includes(s, Moderate) \/ includes(s, Medium) THEN Moderate
             ELSE s

\* variant: String(raw) is searched without toLowerCase()
normalizeSeverityCaseSensitive(raw) ==
    IF ~Truthy(raw) THEN Low
    ELSE LET s == raw[1]
         IN  IF includes(s, Critical) THEN Critical
             ELSE IF includes(s, High) THEN High
             ELSE IF includes(s, Moderate) \/ includes(s, Medium) THEN Moderate
             ELSE Low

normalizeSeverity(raw) ==
    IF ~Truthy(raw) THEN Low
    ELSE LET s == toLowerCase(raw[1])
         IN  IF includes(s, Critical) THEN Critical
             ELSE IF includes(s, High) THEN High
             ELSE IF includes(s, Moderate) \/ includes(s, Medium) THEN Moderate
             ELSE Low

CountSeverity(vulns, sev) ==
    Cardinality({i \in DOMAIN vulns : normalizeSeverity(Some(vulns[i].severity)) = sev})

buildSeverityCounts(vulns) ==
    [critical |-> CountSeverity(vulns, Critical),
     high     |-> CountSeverity(vulns, High),
     moderate |-> CountSeverity(vulns, Moderate),
     low      |-> CountSeverity(vulns, Low)]

WeightCritical == 4
WeightHigh == 3
WeightModerate == 2
WeightLow == 1

(* JS numbers are IEEE 754 doubles.  A positive double is kept here as      *)
(* [mant, frac]: mant = <<m3, m2, m1, m0>> is its 53-bit significand       *)
(* M = ((m3 * B + m2) * B + m1) * B + m0 in base B = 2^16, normalised to   *)
(* 16 <= m3 < 32, and the value is M / 2^frac.  Every operation yields the *)
(* double nearest to the exact result, a tie going to the even             *)
(* significand.                                                            *)
RECURSIVE Pow2(_)
Pow2(n) == IF n = 0 THEN 1 ELSE 2 * Pow2(n - 1)

LimbBase == Pow2(16)
TopLimb == Pow2(4)

\* the least s with w * 2^s >= d
RECURSIVE Shift(_, _)
Shift(w, d) == IF w >= d THEN 0 ELSE 1 + Shift(2 * w, d)

\* the significand plus one unit in its last place
Inc(m) ==
    IF m[4] + 1 < LimbBase THEN <<m[1], m[2], m[3], m[4] + 1>>
    ELSE IF m[3] + 1 < LimbBase THEN <<m[1], m[2], m[3] + 1, 0>>
    ELSE IF m[2] + 1 < LimbBase THEN <<m[1], m[2] + 1, 0, 0>>
    ELSE <<m[1] + 1, 0, 0, 0>>

\* the double of the exact value whose leading 53 bits are kept and whose
\* rest is more than, exactly, or less than half a unit of the last kept bit
RoundToDouble(kept, frac, aboveHalf, exactlyHalf) ==
    LET up == aboveHalf \/ (exactlyHalf /\ (kept[4] % 2) = 1)
        m == IF up THEN Inc(kept) ELSE kept
    IN  IF m[1] = 2 * TopLimb
        THEN [mant |-> <<TopLimb, 0, 0, 0>>, frac |-> frac - 1]
        ELSE [mant |-> m, frac |-> frac]

\* w / d for integers 0 < w <= d < 2^15: long division in base B
DoubleDiv(w, d) ==
    LET s == Shift(w, d)
        a3 == w * Pow2(s) * TopLimb
        a2 == (a3 % d) * LimbBase
        a1 == (a2 % d) * LimbBase
        a0 == (a1 % d) * LimbBase
        rem == a0 % d
    IN  RoundToDouble(<<a3 \div d, a2 \div d, a1 \div d, a0 \div d>>,
                      s + 52, 2 * rem > d, 2 * rem = d)

\* the bits t has beyond the five of a top limb
RECURSIVE Excess(_)
Excess(t) == IF t < 2 * TopLimb THEN 0 ELSE 1 + Excess(t \div 2)

\* x * n for a double x and an integer 0 < n < 2^11
DoubleMul(x, n) ==
    LET p0 == x.mant[4] * n
        p1 == (x.mant[3] * n) + (p0 \div LimbBase)
        p2 == (x.mant[2] * n) + (p1 \div LimbBase)
        t  == (x.mant[1] * n) + (p2 \div LimbBase)
        l2 == p2 % LimbBase
        l1 == p1 % LimbBase
        l0 == p0 % LimbBase
        cut == Excess(t)
        low == Pow2(cut)
        high == Pow2(16 - cut)
        dropped == l0 % low
    IN  IF cut = 0 THEN [mant |-> <<t, l2, l1, l0>>, frac |-> x.frac]
        ELSE RoundToDouble(<<t \div low,
                             (l2 \div low) + ((t % low) * high),
                             (l1 \div low) + ((l2 % low) * high),
                             (l0 \div low) + ((l1 % low) * high)>>,
                           x.frac - cut,
                           2 * dropped > low, 2 * dropped = low)

\* Math.round of a double between 2^-10 and 2^20: the nearest integer, a
\* half going up
MathRound(x) ==
    LET top == x.mant[1] * LimbBase + x.mant[2]
        k == x.frac - 32
    IN  (top \div Pow2(k)) + ((top \div Pow2(k - 1)) % 2)

\* variant: the weighted sum is not divided by the number of vulnerabilities
computeRiskScoreUnscaled(counts) ==
    (counts.critical * WeightCritical + counts.high * WeightHigh
     + counts.moderate * WeightModerate + counts.low * WeightLow) * 25

\* variant: the guard of line 52 is missing; 0 / 0 is NaN, written -1 here
computeRiskScoreNoGuard(counts) ==
    LET total == counts.critical + counts.high + counts.moderate + counts.low
        weighted == counts.critical * WeightCritical + counts.high * WeightHigh
                    + counts.moderate * WeightModerate + counts.low * WeightLow
    IN  IF total = 0 THEN -1
        ELSE MathRound(DoubleMul(DoubleDiv(weighted, total * 4), 100))

\* lines 48-59; weighted <= total * 4, the greatest weight being 4
computeRiskScore(counts) ==
    LET total == counts.critical + counts.high + counts.moderate + counts.low
        weighted == counts.critical * WeightCritical + counts.high * WeightHigh
                    + counts.moderate * WeightModerate + counts.low * WeightLow
    IN  IF total = 0 THEN 0
        ELSE MathRound(DoubleMul(DoubleDiv(weighted, total * 4), 100))

\* ------------------------------------------------------------ extraction
(* The parsed audit document: [vulnerabilities, metadata].                 *)
(* vulnerabilities is optional; present, it is the list of Object.entries: *)
(* [name, via, severity, fixAvailable] per package, names distinct.  via   *)
(* is None when the field is absent or not an array.  An issue of via is   *)
(* [title, severity, cvss, url], each optional; an issue that is a bare    *)
(* string has none of the four.  cvss scores are in tenths.                *)

\* the decimal text of a number below 100
Digits(n) ==
    IF n < 10 THEN <<DigitChars[n + 1]>>
    ELSE <<DigitChars[(n \div 10) + 1], DigitChars[(n % 10) + 1]>>

IssueTitle(issue, idx, pkgName) ==
    IF Truthy(issue.title) THEN issue.title[1]
    ELSE <<"I","s","s","u","e"," ">> \o Digits(idx) \o <<" ","i","n"," ">> \o pkgName

\* the records one package contributes, in the order of its via list
PackageVulns(v) ==
    LET via == IF v.via # None THEN v.via[1] ELSE <<>>
    IN  [i \in DOMAIN via |->
            LET issue == via[i]
                title == IssueTitle(issue, i, v.name)
            IN  [id           |-> v.name \o <<"-">> \o Digits(i - 1),
                 name         |-> v.name,
                 title        |-> title,
                 description  |-> IF Truthy(issue.url)
                                  THEN title \o <<" ","(","s","e","e",":"," ">>
                                       \o issue.url[1] \o <<")">>
                                  ELSE title,
                 severity     |-> OrElse(issue.severity, OrElse(v.severity, Some(Low)))[1],
                 cvssScore    |-> IF issue.cvss # None THEN issue.cvss[1] ELSE 0,
                 package      |-> v.name,
                 fixAvailable |-> IF v.fixAvailable THEN "yes" ELSE "no"]]

RECURSIVE FlatVulns(_)
FlatVulns(entries) ==
    IF entries = <<>> THEN <<>>
    ELSE PackageVulns(Head(entries)) \o FlatVulns(Tail(entries))

extractVulnerabilitiesFromAudit(auditJson) ==
    IF auditJson.vulnerabilities = None THEN <<>>
    ELSE FlatVulns(auditJson.vulnerabilities[1])

(* vulnCounts is a plain object literal.  vulnCounts[pkgName] = count makes  *)
(* an own property for every name but __proto__: there the assignment runs *)
(* the setter of Object.prototype, which ignores a number, and no property *)
(* is made, so Object.keys(vulnCounts) does not list that name.            *)
ProtoName == <<"_","_","p","r","o","t","o","_","_">>

\* Object.keys(vulnCounts) after the loop of lines 98-104, as entries
OwnCounts(entries) ==
    SelectSeq(entries, LAMBDA e : e.name # ProtoName)

extractDependenciesFromAudit(auditJson) ==
    IF auditJson.vulnerabilities = None THEN <<>>
    ELSE LET entries == OwnCounts(auditJson.vulnerabilities[1])
         IN  [i \in DOMAIN entries |->
                [name            |-> entries[i].name,
                 version         |-> "unknown",
                 type            |-> "prod",
                 vulnerabilities |-> IF entries[i].via # None
                                     THEN Len(entries[i].via[1]) ELSE 0]]

\* Math.floor(total * 0.7) is (7 * total) \div 10 for the totals used here
extractSignaturesFromAudit(auditJson) ==
    LET depsMeta == IF auditJson.metadata # None THEN auditJson.metadata[1]
                    ELSE [total |-> None, prod |-> None]
        total == IF depsMeta.total # None THEN depsMeta.total[1]
                 ELSE IF depsMeta.prod # None THEN depsMeta.prod[1] ELSE 0
        verified == (7 * total) \div 10
    IN  [status          |-> IF total # 0 THEN "partial" ELSE "none",
         totalPackages   |-> total,
         verifiedCount   |-> verified,
         unverifiedCount |-> total - verified,
         verified        |-> <<>>,
         unverified      |-> <<>>]

\* variant: every result carries the same identifier
BuildResultFixedId(scanId, projName, auditJson) ==
    LET vulns == extractVulnerabilitiesFromAudit(auditJson)
        severityCounts == buildSeverityCounts(vulns)
    IN  [projectId       |-> 0,
         projectName     |-> projName,
         summary         |-> [totalVulnerabilities |->
                                  severityCounts.critical + severityCounts.high
                                  + severityCounts.moderate + severityCounts.low,
                              critical  |-> severityCounts.critical,
                              high      |-> severityCounts.high,
                              moderate  |-> severityCounts.moderate,
                              low       |-> severityCounts.low,
                              riskScore |-> computeRiskScore(severityCounts)],
         vulnerabilities |-> vulns,
         dependencies    |-> extractDependenciesFromAudit(auditJson),
         signatures      |-> extractSignaturesFromAudit(auditJson)]

\* lines 235-264 of runScanForProject: the ScanResult of one audit document
BuildResult(scanId, projName, auditJson) ==
    LET vulns == extractVulnerabilitiesFromAudit(auditJson)
        severityCounts == buildSeverityCounts(vulns)
    IN  [projectId       |-> scanId,
         projectName     |-> projName,
         summary         |-> [totalVulnerabilities |->
                                  severityCounts.critical + severityCounts.high
                                  + severityCounts.moderate + severityCounts.low,
                              critical  |-> severityCounts.critical,
                              high      |-> severityCounts.high,
                              moderate  |-> severityCounts.moderate,
                              low       |-> severityCounts.low,
                              riskScore |-> computeRiskScore(severityCounts)],
         vulnerabilities |-> vulns,
         dependencies    |-> extractDependenciesFromAudit(auditJson),
         signatures      |-> extractSignaturesFromAudit(auditJson)]

\* ------------------------------------------------------------ history files
DefaultName == <<"M","y"," ","P","r","o","j","e","c","t">>

SafeChars == Range(UpperChars) \cup Range(LowerChars) \cup Range(DigitChars)
             \cup {"_", "-"}

\* variant: no fallback to 'My Project'
safeProjectNameNoDefault(name) ==
    LET s == OrElse(name, Some(<<>>))[1]
    IN  [i \in DOMAIN s |-> IF s[i] \in SafeChars THEN s[i] ELSE "_"]

\* variant: the name is used as it came, nothing replaced
safeProjectNameRaw(name) == OrElse(name, Some(DefaultName))[1]

\* (name || 'My Project').replace(/[^a-zA-Z0-9_-]/g, '_')
safeProjectName(name) ==
    LET s == OrElse(name, Some(DefaultName))[1]
    IN  [i \in DOMAIN s |-> IF s[i] \in SafeChars THEN s[i] ELSE "_"]

(* A history file is absent, or holds a text: [exists, valid, array, doc],  *)
(* where valid says JSON.parse accepts the text, array says the value it   *)
(* yields is an array, and doc is that array.  The program only ever       *)
(* writes JSON.stringify of a list of ScanResults, which JSON.parse reads  *)
(* back unchanged; any other content was put there from outside.           *)
NoFile == [exists |-> FALSE, valid |-> FALSE, array |-> FALSE, doc |-> <<>>]
CorruptFile == [exists |-> TRUE, valid |-> FALSE, array |-> FALSE, doc |-> <<>>]
JsonFile(list) == [exists |-> TRUE, valid |-> TRUE, array |-> TRUE, doc |-> list]

\* a file whose text is JSON but no array, such as '{}'
ObjectFile == [exists |-> TRUE, valid |-> TRUE, array |-> FALSE, doc |-> <<>>]

JSONparse(text) == [ok |-> text.valid, value |-> text.doc]

\* variant: every existing file is taken as unreadable
ReadHistoryNone(file) == <<>>

\* lines 150-157: the history saveScanHistory starts from
ReadHistory(file) ==
    IF file.exists /\ JSONparse(file).ok THEN JSONparse(file).value ELSE <<>>

\* variant: history.push(result) in place of history.unshift(result)
saveScanHistoryPush(fs, projectName, result) ==
    LET safeName == safeProjectName(Some(projectName))
        history == ReadHistory(fs[safeName])
    IN  [fs EXCEPT ![safeName] = JsonFile(history \o <<result>>)]

\* variant: the file is written with the new result alone
saveScanHistoryOverwrite(fs, projectName, result) ==
    [fs EXCEPT ![safeProjectName(Some(projectName))] = JsonFile(<<result>>)]

\* line 159: history.unshift is no function unless history is an array
ErrUnshift == "history.unshift is not a function"

unshiftThrows(fs, projectName) ==
    LET file == fs[safeProjectName(Some(projectName))]
    IN  file.exists /\ JSONparse(file).ok /\ ~file.array

\* lines 146-161: the files after saveScanHistory(projectName, result), when
\* it returns
saveScanHistory(fs, projectName, result) ==
    LET safeName == safeProjectName(Some(projectName))
        history == ReadHistory(fs[safeName])
    IN  [fs EXCEPT ![safeName] = JsonFile(<<result>> \o history)]

\* ------------------------------------------------------------ inputs
(* What the environment hands the program: request bodies, and what the    *)
(* two npm processes and the file system answer.                           *)
NameA == <<"a","/">>
NameB == <<"a","_">>
Lodash == <<"l","o","d","a","s","h">>
Mkdirp == <<"m","k","d","i","r","p">>

Manifest1 == [name |-> None, rev |-> "r1"]
Manifest2 == [name |-> Some(NameB), rev |-> "r2"]

\* req.body.packageJson and req.body.projectName
BodyManifests == {None, Some(Manifest1), Some(Manifest2)}
BodyNames == {None, Some(NameA)}

\* req.params.projectName
ParamNames == {NameA, NameB, DefaultName}

Keys == {safeProjectName(Some(n)) : n \in ParamNames}

\* '{}'
EmptyDoc == [vulnerabilities |-> None, metadata |-> None]

\* the advisory document of section 8 of the specification
LodashDoc ==
    [vulnerabilities |-> Some(<<
        [name |-> Lodash,
         via |-> Some(<<[title    |-> Some(<<"P","P">>),
                         severity |-> Some(High),
                         cvss     |-> Some(75),
                         url      |-> None]>>),
         severity |-> None,
         fixAvailable |-> TRUE]>>),
     metadata |-> Some([total |-> Some(10), prod |-> None])]

\* a package whose via names another package, with a package-level severity
MkdirpDoc ==
    [vulnerabilities |-> Some(<<
        [name |-> Mkdirp,
         via |-> Some(<<[title |-> None, severity |-> None,
                         cvss |-> None, url |-> None]>>),
         severity |-> Some(<<"C","r","i","t","i","c","a","l">>),
         fixAvailable |-> FALSE]>>),
     metadata |-> None]

\* severity counts, and a report of one package with that many advisories
\* of each severity
CountTuples ==
    [critical : 0..MaxCount, high : 0..MaxCount,
     moderate : 0..MaxCount, low : 0..MaxCount]

\* reports of many low advisories and at most one of each other severity
ManyLowTuples ==
    [critical : 0..1, high : 0..1, moderate : 0..1, low : (ManyLow - 2)..ManyLow]

Issues(sev, n) ==
    [i \in 1..n |-> [title |-> None, severity |-> Some(sev),
                     cvss |-> None, url |-> None]]

CountsDoc(c) ==
    [vulnerabilities |-> Some(<<
        [name |-> Lodash,
         via |-> Some(Issues(Critical, c.critical) \o Issues(High, c.high)
                      \o Issues(Moderate, c.moderate) \o Issues(Low, c.low)),
         severity |-> None,
         fixAvailable |-> TRUE]>>),
     metadata |-> None]

(* Audit documents whose severities are not the four canonical words: an   *)
(* advisory or a package may carry no severity, an empty one, another      *)
(* case, 'medium' or 'info'.  One or two packages, one of which may bear   *)
(* the name __proto__; a via field that is absent, empty, or holds one or  *)
(* two advisories.                                                         *)
Info == <<"i","n","f","o">>
IssueSeverities ==
    {None, Some(<<>>), Some(<<"H","i","g","h">>), Some(Medium), Some(Info)}
PackageSeverities ==
    {None, Some(<<"C","r","i","t","i","c","a","l">>), Some(Moderate)}

Issue(sev) == [title |-> None, severity |-> sev, cvss |-> None, url |-> None]

ViaLists ==
    {None, Some(<<>>)}
    \cup {Some(<<Issue(a)>>) : a \in IssueSeverities}
    \cup {Some(<<Issue(a), Issue(b)>>) : a \in IssueSeverities, b \in IssueSeverities}

Package(name, via, sev) ==
    [name |-> name, via |-> via, severity |-> sev, fixAvailable |-> FALSE]

FirstPackages ==
    {Package(n, via, sev) :
        n \in {Lodash, ProtoName}, via \in ViaLists, sev \in PackageSeverities}
SecondPackages ==
    {Package(Mkdirp, via, None) : via \in {None, Some(<<Issue(None)>>)}}

AuditDocs ==
    {EmptyDoc, LodashDoc, MkdirpDoc, [vulnerabilities |-> Some(<<>>), metadata |-> None]}
    \cup {[vulnerabilities |-> Some(<<p>>), metadata |-> None] : p \in FirstPackages}
    \cup {[vulnerabilities |-> Some(<<p, q>>), metadata |-> None] :
             p \in FirstPackages, q \in SecondPackages}

(* Arguments of normalizeSeverity: undefined, and every text made of two   *)
(* of the words below, each in lower or upper case, joined with or         *)
(* without a blank.  String(raw) of a truthy value that is no string is a  *)
(* text as well.                                                           *)
ToUpperChar(c) ==
    IF \E i \in DOMAIN LowerChars : LowerChars[i] = c
    THEN UpperChars[CHOOSE i \in DOMAIN LowerChars : LowerChars[i] = c]
    ELSE c

toUpperCase(s) == [i \in DOMAIN s |-> ToUpperChar(s[i])]

SeverityWords == {<<>>, Critical, High, Moderate, Medium, Low, Info}
CasedWords == SeverityWords \cup {toUpperCase(w) : w \in SeverityWords}

RawSeverities ==
    {None} \cup {Some(a \o sep \o b) :
                    a \in CasedWords, sep \in {<<>>, <<" ">>}, b \in CasedWords}

(* Project names as a request may carry them: undefined, 'My Project',     *)
(* 'My_Project', and every text of up to KeyLen characters over letters,   *)
(* a digit, the two other safe characters, a path separator, a dot and a   *)
(* blank.  A path below the history directory is modelled by the text      *)
(* between the directory and '.json'; a text with a separator or dots      *)
(* names a file elsewhere.                                                 *)
NameChars == {"a", "Z", "7", "_", "-", "/", ".", " "}
DefaultKey == <<"M","y","_","P","r","o","j","e","c","t">>

KeyInputs ==
    {None, Some(DefaultName), Some(DefaultKey)}
    \cup {Some(s) : s \in UNION {[1..n -> NameChars] : n \in 0..KeyLen}}

\* every path a request could address, with and without the replacement
KeyPaths ==
    {safeProjectName(n) : n \in KeyInputs}
    \cup {OrElse(n, Some(DefaultName))[1] : n \in KeyInputs}

\* the history directory is empty; the paths that lead out of it hold
\* files of other kinds
KeyStart ==
    [k \in KeyPaths |->
        IF \A i \in DOMAIN k : k[i] \in SafeChars THEN NoFile ELSE ObjectFile]

\* a process's stdout: [empty, valid, doc]; valid says JSON.parse accepts it
EmptyText == [empty |-> TRUE, valid |-> FALSE, doc |-> EmptyDoc]
GarbageText == [empty |-> FALSE, valid |-> FALSE, doc |-> EmptyDoc]
JsonText(doc) == [empty |-> FALSE, valid |-> TRUE, doc |-> doc]

Stdouts == {EmptyText, GarbageText, JsonText(LodashDoc)}

\* a zero exit, or an error of execAsync (non-zero exit, timeout)
Exits == {0, 1}

\* ------------------------------------------------------------ the audit step
ErrAuditFailed == "npm audit failed: "
ErrParse == "Failed to parse npm audit output"

\* variant: any error of execAsync fails the scan, whatever its stdout
auditStepStrict(exit, stdout) ==
    IF exit = 0 /\ (stdout.empty \/ stdout.valid)
    THEN [ok |-> TRUE,
          auditJson |-> IF stdout.empty THEN EmptyDoc ELSE stdout.doc,
          error |-> ""]
    ELSE [ok |-> FALSE, auditJson |-> EmptyDoc, error |-> ErrAuditFailed]

\* variant: the catch block parses e.stdout || '{}' without testing e.stdout
auditStepEmptyOk(exit, stdout) ==
    IF stdout.empty THEN [ok |-> TRUE, auditJson |-> EmptyDoc, error |-> ""]
    ELSE IF stdout.valid THEN [ok |-> TRUE, auditJson |-> stdout.doc, error |-> ""]
    ELSE [ok |-> FALSE, auditJson |-> EmptyDoc,
          error |-> IF exit = 0 THEN ErrAuditFailed ELSE ErrParse]

\* lines 202-233: what the audit leaves the run with, or the error it throws.
\* A SyntaxError of line 213 is caught at line 214 and has no stdout property.
auditStep(exit, stdout) ==
    IF exit = 0
    THEN LET p == JSONparse(IF stdout.empty THEN JsonText(EmptyDoc) ELSE stdout)
         IN  IF p.ok
             THEN [ok |-> TRUE, auditJson |-> p.value, error |-> ""]
             ELSE [ok |-> FALSE, auditJson |-> EmptyDoc, error |-> ErrAuditFailed]
    ELSE IF ~stdout.empty
         THEN LET p == JSONparse(stdout)
              IN  IF p.ok
                  THEN [ok |-> TRUE, auditJson |-> p.value, error |-> ""]
                  ELSE [ok |-> FALSE, auditJson |-> EmptyDoc, error |-> ErrParse]
         ELSE [ok |-> FALSE, auditJson |-> EmptyDoc, error |-> ErrAuditFailed]

\* variant: an error of npm install is not caught
installStepFatal(ok) == IF ok THEN "audit" ELSE "failed"

\* lines 183-199: an error of npm install is caught and logged; either way
\* the run goes on to the audit
installStep(ok) == "audit"

\* variant: the callback awaits the scan outside any try
CaughtByMonitorNever(error) == FALSE

\* lines 330-336: the callback's try/catch around each scan
CaughtByMonitor(error) == TRUE

\* lines 288-305: the route's try/catch answers 500
CaughtByRoute(error) == TRUE

\* variant: the route answers res.json(...) in the catch block too
routeStatusAlwaysOk(error) == 200

\* lines 301-304: res.json(result), or res.status(500) with the error
routeStatus(error) == IF error = "" THEN 200 ELSE 500

\* ------------------------------------------------------------ state helpers
Put(f, k, v) == [x \in DOMAIN f \cup {k} |-> IF x = k THEN v ELSE f[x]]
Remove(f, k) == [x \in DOMAIN f \ {k} |-> f[x]]

\* variant: the Map is cleared before the entry is set
MapSetAlone(m, k, v) == <<[projName |-> k, data |-> v]>>

\* variant: a name that is registered keeps its first manifest
MapSetKeepFirst(m, k, v) ==
    IF \E i \in DOMAIN m : m[i].projName = k
    THEN m
    ELSE Append(m, [projName |-> k, data |-> v])

\* Map.prototype.set: a known key keeps its place, a new one goes last
MapSet(m, k, v) ==
    IF \E i \in DOMAIN m : m[i].projName = k
    THEN [i \in DOMAIN m |-> IF m[i].projName = k
                             THEN [projName |-> k, data |-> v] ELSE m[i]]
    ELSE Append(m, [projName |-> k, data |-> v])

\* variant: a scheduled run is filed under the default project name
StartedRunMonitorRenamed(packageJson, projName, sourceTag, tick) ==
    [tag |-> sourceTag,
     projName |-> IF sourceTag = "MONITOR" THEN DefaultName ELSE projName,
     packageJson |-> packageJson,
     pc |-> "install", installFailed |-> FALSE, tick |-> tick]

\* variant: the run goes to npm audit without running npm install
StartedRunSkipsInstall(packageJson, projName, sourceTag, tick) ==
    [tag |-> sourceTag, projName |-> projName, packageJson |-> packageJson,
     pc |-> "audit", installFailed |-> FALSE, tick |-> tick]

\* lines 169-199 up to the first await: the run waits for npm install
StartedRun(packageJson, projName, sourceTag, tick) ==
    [tag |-> sourceTag, projName |-> projName, packageJson |-> packageJson,
     pc |-> "install", installFailed |-> FALSE, tick |-> tick]

NoLast == [op |-> "none"]
NoTick == [id |-> 0, snap |-> <<>>, scanned |-> <<>>, outs |-> <<>>,
           registry |-> <<>>]

InitWith(maxRuns, maxTicks, startFiles) ==
    /\ files \in startFiles
    /\ tmp = {}
    /\ monitoredProjects = <<>>
    /\ runs = <<>>
    /\ ticks = <<>>
    /\ nextId = maxRuns
    /\ nextTick = maxTicks
    /\ alive = TRUE
    /\ last = NoLast
    /\ lastTick = NoTick
    /\ appended = [k \in Keys |-> <<>>]

\* an empty history directory; one whose files are all unreadable; one whose
\* files all hold a JSON object
CleanStart == [k \in Keys |-> NoFile]
CorruptStart == [k \in Keys |-> CorruptFile]
ObjectStart == [k \in Keys |-> ObjectFile]

\* ------------------------------------------------------------ actions
(* The end of a runScanForProject call and what its awaiting caller does   *)
(* next, in the same turn of the event loop.  fin describes the run;       *)
(* newFiles is the history directory it leaves; removed says whether       *)
(* rmSync took the workspace away.                                         *)
(* POST /scan (lines 300-305) answers 200 with the result or 500.          *)
(* The setInterval callback (lines 329-337) takes the next entry of the    *)
(* Map iterator, which walks the live Map, and starts its scan; when the   *)
(* iterator is exhausted the callback ends.                                *)
Complete(id, fin, newFiles, removed) ==
    LET r == runs[id]
        returned == fin.error = ""
        tmp1 == IF removed THEN tmp \ {id} ELSE tmp
    IN  /\ files' = newFiles
        /\ appended' = IF fin.result = None THEN appended
                       ELSE [appended EXCEPT ![safeProjectName(Some(r.projName))] =
                                Append(@, fin.result[1])]
        /\ UNCHANGED <<monitoredProjects, nextTick>>
        /\ IF r.tag = "MANUAL"
           THEN /\ last' = [fin EXCEPT !.status = routeStatus(fin.error)]
                /\ alive' = (returned \/ CaughtByRoute(fin.error))
                /\ runs' = Remove(runs, id)
                /\ tmp' = tmp1
                /\ UNCHANGED <<ticks, nextId, lastTick>>
           ELSE LET t == r.tick
                    tk == ticks[t]
                    pos == tk.pos + 1
                    outs == Append(tk.outs, returned)
                IN  /\ last' = fin
                    /\ IF ~(returned \/ CaughtByMonitor(fin.error))
                       THEN /\ alive' = FALSE
                            /\ ticks' = Remove(ticks, t)
                            /\ runs' = Remove(runs, id)
                            /\ tmp' = tmp1
                            /\ UNCHANGED <<nextId, lastTick>>
                       ELSE IF pos <= Len(monitoredProjects)
                       THEN /\ nextId > 0
                            /\ LET e == monitoredProjects[pos]
                               IN  /\ runs' = Put(Remove(runs, id), nextId,
                                              StartedRun(e.data.packageJson,
                                                         e.projName, "MONITOR", t))
                                   /\ ticks' = [ticks EXCEPT ![t] =
                                              [pos |-> pos, snap |-> tk.snap,
                                               scanned |-> Append(tk.scanned, e),
                                               outs |-> outs]]
                            /\ tmp' = tmp1 \cup {nextId}
                            /\ nextId' = nextId - 1
                            /\ alive' = TRUE
                            /\ UNCHANGED lastTick
                       ELSE /\ lastTick' = [id |-> t, snap |-> tk.snap,
                                            scanned |-> tk.scanned, outs |-> outs,
                                            registry |-> monitoredProjects]
                            /\ ticks' = Remove(ticks, t)
                            /\ runs' = Remove(runs, id)
                            /\ tmp' = tmp1
                            /\ alive' = TRUE
                            /\ UNCHANGED nextId

\* what is known of a run when it ends
Finished(id, exit, stdout, steps, error, result) ==
    [op |-> "scan", status |-> 0, id |-> id, tag |-> runs[id].tag,
     projName |-> runs[id].projName, packageJson |-> runs[id].packageJson,
     installFailed |-> runs[id].installFailed, exit |-> exit, stdout |-> stdout,
     steps |-> steps, error |-> error, result |-> result]

\* POST /scan, lines 287-300, up to the await of npm install
PostScan(projectName, packageJson) ==
    /\ alive
    /\ \/ /\ packageJson = None
          /\ last' = [op |-> "POST", status |-> 400]
          /\ UNCHANGED <<files, tmp, monitoredProjects, runs, ticks, nextId,
                         nextTick, alive, lastTick, appended>>
       \/ /\ packageJson # None
          /\ nextId > 0
          /\ LET pj == packageJson[1]
                 projName == OrElse(projectName,
                                    OrElse(pj.name, Some(DefaultName)))[1]
             IN  /\ monitoredProjects' =
                        MapSet(monitoredProjects, projName, [packageJson |-> pj])
                 /\ runs' = Put(runs, nextId, StartedRun(pj, projName, "MANUAL", 0))
          /\ tmp' = tmp \cup {nextId}
          /\ nextId' = nextId - 1
          /\ UNCHANGED <<files, ticks, nextTick, alive, last, lastTick, appended>>

\* the timer fires: lines 328-331, up to the await of the first scan
Tick ==
    /\ alive
    /\ nextTick > 0
    /\ nextTick' = nextTick - 1
    /\ IF monitoredProjects = <<>>
       THEN /\ lastTick' = [id |-> nextTick, snap |-> <<>>, scanned |-> <<>>,
                            outs |-> <<>>, registry |-> <<>>]
            /\ UNCHANGED <<runs, ticks, tmp, nextId>>
       ELSE /\ nextId > 0
            /\ LET e == monitoredProjects[1]
               IN  /\ runs' = Put(runs, nextId,
                              StartedRun(e.data.packageJson, e.projName,
                                         "MONITOR", nextTick))
                   /\ ticks' = Put(ticks, nextTick,
                               [pos |-> 1, snap |-> monitoredProjects,
                                scanned |-> <<e>>, outs |-> <<>>])
            /\ tmp' = tmp \cup {nextId}
            /\ nextId' = nextId - 1
            /\ UNCHANGED lastTick
    /\ UNCHANGED <<files, monitoredProjects, alive, last, appended>>

\* npm install ended (lines 187-199); the run goes on to await npm audit
InstallDone(id, ok) ==
    /\ alive
    /\ id \in DOMAIN runs
    /\ runs[id].pc = "install"
    /\ IF installStep(ok) = "audit"
       THEN /\ runs' = [runs EXCEPT ![id].pc = "audit", ![id].installFailed = ~ok]
            /\ UNCHANGED <<files, tmp, monitoredProjects, ticks, nextId, nextTick,
                           alive, last, lastTick, appended>>
       ELSE Complete(id,
                     Finished(id, 0, EmptyText, <<"allocate", "resolve">>,
                              "npm install failed", None),
                     files, FALSE)

\* npm audit ended: lines 213-281, the rest of the run
AuditDone(id, exit, stdout) ==
    /\ alive
    /\ id \in DOMAIN runs
    /\ runs[id].pc = "audit"
    /\ LET r == runs[id]
           a == auditStep(exit, stdout)
           result == BuildResult(id, r.projName, a.auditJson)
       IN  IF ~a.ok
           THEN Complete(id,
                         Finished(id, exit, stdout,
                                  <<"allocate", "resolve", "audit">>,
                                  a.error, None),
                         files, FALSE)
           ELSE IF unshiftThrows(files, r.projName)
           THEN Complete(id,
                         Finished(id, exit, stdout,
                                  <<"allocate", "resolve", "audit", "extract",
                                    "score">>,
                                  ErrUnshift, None),
                         files, FALSE)
           ELSE Complete(id,
                         Finished(id, exit, stdout,
                                  <<"allocate", "resolve", "audit", "extract",
                                    "score", "persist", "teardown", "return">>,
                                  "", Some(result)),
                         saveScanHistory(files, r.projName, result), TRUE)

\* lines 310-323: what GET /scans/:projectName answers
getScans(fs, projectName) ==
    LET file == fs[safeProjectName(Some(projectName))]
    IN  IF ~file.exists
        THEN [op |-> "GET", status |-> 200, name |-> projectName, scans |-> <<>>,
              array |-> TRUE]
        ELSE IF JSONparse(file).ok
        THEN [op |-> "GET", status |-> 200, name |-> projectName,
              scans |-> JSONparse(file).value, array |-> file.array]
        ELSE [op |-> "GET", status |-> 500, name |-> projectName, scans |-> <<>>,
              array |-> FALSE]

\* GET /scans/:projectName, lines 309-324
GetScans(projectName) ==
    /\ alive
    /\ last' = getScans(files, projectName)
    /\ UNCHANGED <<files, tmp, monitoredProjects, runs, ticks, nextId, nextTick,
                   alive, lastTick, appended>>

(* The scan pipeline: requests with and without a manifest or a name,      *)
(* every outcome of npm install and of npm audit, over an empty history    *)
(* directory.                                                              *)
Init == InitWith(MaxRuns, MaxTicks, {CleanStart})

Next ==
    \/ \E n \in BodyNames, m \in {None, Some(Manifest1)} : PostScan(n, m)
    \/ Tick
    \/ \E id \in DOMAIN runs, ok \in BOOLEAN : InstallDone(id, ok)
    \/ \E id \in DOMAIN runs, exit \in Exits, stdout \in Stdouts :
            AuditDone(id, exit, stdout)

Spec == Init /\ [][Next]_vars

(* The history files: every project name, reads of the history, a history  *)
(* directory that may be unreadable at start.  npm install succeeds, and   *)
(* npm audit reports the lodash advisory, reports nothing, or fails.       *)
InitHist == InitWith(HistRuns, HistTicks, {CleanStart, CorruptStart})

NextHist ==
    \/ \E n \in BodyNames, m \in BodyManifests \ {None} : PostScan(n, m)
    \/ Tick
    \/ \E id \in DOMAIN runs : InstallDone(id, TRUE)
    \/ \E id \in DOMAIN runs :
            \/ AuditDone(id, 0, JsonText(LodashDoc))
            \/ AuditDone(id, 0, EmptyText)
            \/ AuditDone(id, 1, EmptyText)
    \/ \E n \in ParamNames : GetScans(n)

SpecHist == InitHist /\ [][NextHist]_vars

(* The same requests and answers over a history directory whose files were  *)
(* damaged from outside: unreadable, or JSON that is no array.             *)
InitStore == InitWith(HistRuns, HistTicks, {CorruptStart, ObjectStart})

SpecStore == InitStore /\ [][NextHist]_vars

(* The scheduler, under more scans and ticks with at most SchedInFlight    *)
(* scans in flight when a request or a timer firing arrives: npm install   *)
(* succeeds, and npm audit reports the lodash advisory or fails.           *)
InitSched == InitWith(SchedRuns, SchedTicks, {CleanStart})

SchedBodies == {<<Some(NameA), Some(Manifest1)>>, <<Some(NameA), Some(Manifest2)>>,
                <<None, Some(Manifest1)>>}

NextSched ==
    \/ \E b \in SchedBodies :
            Cardinality(DOMAIN runs) < SchedInFlight /\ PostScan(b[1], b[2])
    \/ Cardinality(DOMAIN runs) < SchedInFlight /\ Tick
    \/ \E id \in DOMAIN runs : InstallDone(id, TRUE)
    \/ \E id \in DOMAIN runs :
            \/ AuditDone(id, 0, JsonText(LodashDoc))
            \/ AuditDone(id, 1, EmptyText)

SpecSched == InitSched /\ [][NextSched]_vars

(* The scheduler under fairness: the timer keeps firing while firings are   *)
(* left, and every npm process ends (execAsync is given a timeout).  A      *)
(* request or a firing arrives while fewer than LiveInFlight scans are in  *)
(* flight, and a request is taken only while enough scan identifiers stay  *)
(* in reserve for the ticks in flight and to come, each of which scans at  *)
(* most LiveNames projects.  npm audit ends with a zero exit and   *)
(* no report, or fails.                                                    *)
InitLive == InitWith(LiveRuns, LiveTicks, {CleanStart})

LiveBodies == {<<Some(NameA), Some(Manifest1)>>, <<None, Some(Manifest1)>>}

LiveNames ==
    Cardinality({OrElse(b[1], OrElse(b[2][1].name, Some(DefaultName)))[1] :
                    b \in LiveBodies})

PostAllowed ==
    /\ Cardinality(DOMAIN runs) < LiveInFlight
    /\ nextId > LiveNames * (nextTick + Cardinality(DOMAIN ticks))

TickAllowed == Cardinality(DOMAIN runs) < LiveInFlight

NextLive ==
    \/ \E b \in LiveBodies : PostAllowed /\ PostScan(b[1], b[2])
    \/ TickAllowed /\ Tick
    \/ \E id \in DOMAIN runs : InstallDone(id, TRUE)
    \/ \E id \in DOMAIN runs :
            \/ AuditDone(id, 0, EmptyText)
            \/ AuditDone(id, 1, EmptyText)

\* a timer firing, or the end of an npm process
Progress ==
    \/ TickAllowed /\ Tick
    \/ \E id \in DOMAIN runs : InstallDone(id, TRUE)
    \/ \E id \in DOMAIN runs :
            \/ AuditDone(id, 0, EmptyText)
            \/ AuditDone(id, 1, EmptyText)

(* Scans and firings are finitely many here, so fairness of Progress as a   *)
(* whole already lets every firing arrive and every npm process end.       *)
FairLive == WF_vars(Progress)

SpecLive == InitLive /\ [][NextLive]_vars /\ FairLive

(* The risk score: computeRiskScore applied to every tuple of severity      *)
(* counts up to MaxCount, on its own and inside a manual scan whose audit  *)
(* reports that many advisories of each severity.                          *)
InitScore ==
    /\ files = CleanStart
    /\ tmp = {}
    /\ monitoredProjects = <<>>
    /\ runs = <<>>
    /\ ticks = <<>>
    /\ nextId = ScoreRuns
    /\ nextTick = 0
    /\ alive = TRUE
    /\ last \in {[op |-> "counts", counts |-> c] : c \in CountTuples}
    /\ lastTick = NoTick
    /\ appended = [k \in Keys |-> <<>>]

\* line 243: computeRiskScore(severityCounts)
ScoreCounts ==
    /\ last.op = "counts"
    /\ last' = [op |-> "score", counts |-> last.counts,
                score |-> computeRiskScore(last.counts)]
    /\ UNCHANGED <<files, tmp, monitoredProjects, runs, ticks, nextId, nextTick,
                   alive, lastTick, appended>>

NextScore ==
    \/ ScoreCounts
    \/ last.op = "counts" /\ PostScan(None, Some(Manifest1))
    \/ \E id \in DOMAIN runs : InstallDone(id, TRUE)
    \/ \E id \in DOMAIN runs :
            last.op = "counts" /\ AuditDone(id, 0, JsonText(CountsDoc(last.counts)))

SpecScore == InitScore /\ [][NextScore]_vars

(* The risk score of large reports: SpecScore's steps, started from the   *)
(* tuples of CountTuples and from those of ManyLowTuples.                  *)
InitMix ==
    /\ files = CleanStart
    /\ tmp = {}
    /\ monitoredProjects = <<>>
    /\ runs = <<>>
    /\ ticks = <<>>
    /\ nextId = ScoreRuns
    /\ nextTick = 0
    /\ alive = TRUE
    /\ last \in {[op |-> "counts", counts |-> c] : c \in CountTuples \cup ManyLowTuples}
    /\ lastTick = NoTick
    /\ appended = [k \in Keys |-> <<>>]

SpecMix == InitMix /\ [][NextScore]_vars

(* Extraction and normalization on their own and inside a manual scan:    *)
(* the three extract functions applied to every document of AuditDocs,     *)
(* normalizeSeverity applied to every text of RawSeverities, and a scan    *)
(* whose audit prints the document.                                        *)
InitExtract ==
    /\ files = CleanStart
    /\ tmp = {}
    /\ monitoredProjects = <<>>
    /\ runs = <<>>
    /\ ticks = <<>>
    /\ nextId = ExtractRuns
    /\ nextTick = 0
    /\ alive = TRUE
    /\ last \in {[op |-> "doc", doc |-> d] : d \in AuditDocs}
                \cup {[op |-> "raw", raw |-> r] : r \in RawSeverities}
    /\ lastTick = NoTick
    /\ appended = [k \in Keys |-> <<>>]

\* lines 236-244
ExtractDoc ==
    /\ last.op = "doc"
    /\ last' = LET vulns == extractVulnerabilitiesFromAudit(last.doc)
               IN  [op     |-> "extracted",
                    doc    |-> last.doc,
                    vulns  |-> vulns,
                    counts |-> buildSeverityCounts(vulns),
                    deps   |-> extractDependenciesFromAudit(last.doc)]
    /\ UNCHANGED <<files, tmp, monitoredProjects, runs, ticks, nextId, nextTick,
                   alive, lastTick, appended>>

\* line 42: normalizeSeverity(v.severity), and the same of what it returned
NormalizeRaw ==
    /\ last.op = "raw"
    /\ last' = LET sev == normalizeSeverity(last.raw)
               IN  [op |-> "severity", raw |-> last.raw, severity |-> sev,
                    again |-> normalizeSeverity(Some(sev))]
    /\ UNCHANGED <<files, tmp, monitoredProjects, runs, ticks, nextId, nextTick,
                   alive, lastTick, appended>>

NextExtract ==
    \/ ExtractDoc
    \/ NormalizeRaw
    \/ last.op = "doc" /\ PostScan(None, Some(Manifest1))
    \/ \E id \in DOMAIN runs : InstallDone(id, TRUE)
    \/ \E id \in DOMAIN runs :
            last.op = "doc" /\ AuditDone(id, 0, JsonText(last.doc))

SpecExtract == InitExtract /\ [][NextExtract]_vars

(* Project keys: safeProjectName applied to every name of KeyInputs, a     *)
(* manual scan under that name, and GET /scans for the name before and     *)
(* after the scan.                                                         *)
InitKeys ==
    /\ files = KeyStart
    /\ tmp = {}
    /\ monitoredProjects = <<>>
    /\ runs = <<>>
    /\ ticks = <<>>
    /\ nextId = KeyRuns
    /\ nextTick = 0
    /\ alive = TRUE
    /\ last \in {[op |-> "name", name |-> n] : n \in KeyInputs}
    /\ lastTick = NoTick
    /\ appended = [k \in KeyPaths |-> <<>>]

\* lines 147 and 310: safeProjectName(projectName), and the same of the key
DeriveKey ==
    /\ last.op = "name"
    /\ last' = LET key == safeProjectName(last.name)
               IN  [op |-> "key", name |-> last.name, key |-> key,
                    again |-> safeProjectName(Some(key))]
    /\ UNCHANGED <<files, tmp, monitoredProjects, runs, ticks, nextId, nextTick,
                   alive, lastTick, appended>>

NextKeys ==
    \/ DeriveKey
    \/ last.op = "name" /\ PostScan(last.name, Some(Manifest1))
    \/ \E id \in DOMAIN runs : InstallDone(id, TRUE)
    \/ \E id \in DOMAIN runs : AuditDone(id, 0, JsonText(LodashDoc))
    \/ last.op = "name" /\ Truthy(last.name) /\ GetScans(last.name[1])
    \/ \E i \in DOMAIN monitoredProjects : GetScans(monitoredProjects[i].projName)

SpecKeys == InitKeys /\ [][NextKeys]_vars

\* ------------------------------------------------------------ properties
ScanEnded == last.op = "scan"

KeyOf(projName) == safeProjectName(Some(projName))

Count(list, scanId) ==
    Cardinality({i \in DOMAIN list : list[i].projectId = scanId})

Reverse(seq) == [i \in 1..Len(seq) |-> seq[Len(seq) + 1 - i]]

FullSteps == <<"allocate", "resolve", "audit", "extract", "score", "persist",
               "teardown", "return">>

\* C1: every workspace directory that exists belongs to a run still in
\* flight: no run that has ended, by return or by throw, leaves its
\* workspace behind.
C1_WorkspaceRemovedOnEveryExit ==
    \A dir \in tmp : dir \in DOMAIN runs

\* C2: in every step, for every project key, each result handed to
\* saveScanHistory so far is in the key's stored history exactly once, and a
\* step that changes the key's file puts one result in front of the sequence
\* stored before, which stays intact as the tail.
C2_NoLostUpdate ==
    [][\A k \in Keys :
          /\ \A i \in DOMAIN appended'[k] :
                Count(ReadHistory(files'[k]), appended'[k][i].projectId) = 1
          /\ files'[k] # files[k] =>
                /\ files'[k].exists /\ files'[k].valid
                /\ Len(files'[k].doc) = Len(ReadHistory(files[k])) + 1
                /\ Tail(files'[k].doc) = ReadHistory(files[k])]_vars

\* C2 witness: a manual scan and the scheduled scan of the same project
\* overlapped: the manual one started first and was stored last.
C2_Witness ==
    \E k \in Keys :
        LET h == ReadHistory(files[k])
        IN  /\ Len(h) = 2
            /\ h[1].projectId > h[2].projectId
            /\ ScanEnded /\ last.tag = "MANUAL" /\ last.id = h[1].projectId
            /\ Len(lastTick.scanned) = 1

\* C3: a step changes the history files only if a run returns its result in
\* that step; a run that ends with an error changes no history file, has no
\* result and did no extraction, scoring or persistence; a run that returns
\* has put exactly its result in front of exactly one history.
C3_PersistIffReturned ==
    [][/\ files' # files =>
            last' # last /\ last'.op = "scan" /\ last'.error = ""
       /\ (last' # last /\ last'.op = "scan") =>
            IF last'.error # ""
            THEN /\ files' = files
                 /\ last'.result = None
                 /\ Range(last'.steps) \cap {"extract", "score", "persist"} = {}
            ELSE /\ last'.result # None
                 /\ \E k \in Keys :
                       /\ files'[k] = JsonFile(<<last'.result[1]>>
                                               \o ReadHistory(files[k]))
                       /\ \A j \in Keys \ {k} : files'[j] = files[j]]_vars

\* C3 witness: a run ended in a hard audit failure while a stored history
\* existed.
C3_Witness ==
    /\ ScanEnded /\ last.error # ""
    /\ \E k \in Keys : ReadHistory(files[k]) # <<>>

\* C4: a run whose audit exited non-zero with non-empty stdout that parses
\* took every step, returned (200 to a manual caller) and stored the
\* ScanResult a zero exit with the same stdout yields.
C4_NonZeroExitWithJsonSucceeds ==
    (ScanEnded /\ last.exit # 0 /\ ~last.stdout.empty /\ JSONparse(last.stdout).ok)
    => /\ last.error = ""
       /\ last.steps = FullSteps
       /\ auditStep(0, last.stdout).ok
       /\ last.result = Some(BuildResult(last.id, last.projName,
                                         auditStep(0, last.stdout).auditJson))
       /\ Head(ReadHistory(files[KeyOf(last.projName)])) = last.result[1]
       /\ last.tag = "MANUAL" => last.status = 200

C4_Witness ==
    /\ ScanEnded /\ last.exit = 1 /\ last.stdout = JsonText(LodashDoc)
    /\ last.error = "" /\ last.result[1].summary.riskScore = 75

\* C5: a run whose audit exited non-zero with empty stdout ended with the
\* error 'npm audit failed: ', which a manual caller gets as a 500, without
\* a result; no history holds an entry of that run.
C5_NonZeroExitEmptyStdoutFails ==
    (ScanEnded /\ last.exit # 0 /\ last.stdout.empty)
    => /\ last.error = ErrAuditFailed
       /\ last.result = None
       /\ last.tag = "MANUAL" => last.status = 500
       /\ \A k \in Keys : /\ Count(ReadHistory(files[k]), last.id) = 0
                          /\ Count(appended[k], last.id) = 0

C5_Witness ==
    ScanEnded /\ last.exit = 1 /\ last.stdout = EmptyText /\ last.tag = "MANUAL"

\* C6: a run whose audit wrote non-empty stdout that does not parse ended
\* with the error 'Failed to parse npm audit output', whatever the exit.
C6_UnparseableStdoutIsMalformed ==
    (ScanEnded /\ ~last.stdout.empty /\ ~JSONparse(last.stdout).ok)
    => last.error = ErrParse

\* C7: every run that ended went through the audit after the resolution,
\* and its error and result are those the audit's exit and stdout decide,
\* whether npm install failed or not.
C7_ResolutionFailureNotFatal ==
    /\ \A id \in DOMAIN runs : runs[id].pc \in {"install", "audit"}
    /\ ScanEnded =>
        /\ Len(last.steps) >= 3
        /\ last.steps[2] = "resolve" /\ last.steps[3] = "audit"
        /\ last.error = auditStep(last.exit, last.stdout).error
        /\ last.result =
              IF auditStep(last.exit, last.stdout).ok
              THEN Some(BuildResult(last.id, last.projName,
                                    auditStep(last.exit, last.stdout).auditJson))
              ELSE None

C7_Witness ==
    ScanEnded /\ last.installFailed /\ last.error = "" /\ last.result # None

\* C8: no error of a scheduled scan ends the process or the tick: every tick
\* in flight is awaiting exactly one scan and has an outcome for every entry
\* before it, and a tick that ended has scanned every entry of the registry,
\* failed scans included.
C8_TickSurvivesFailedScan ==
    /\ alive
    /\ \A t \in DOMAIN ticks :
          /\ Cardinality({id \in DOMAIN runs : runs[id].tick = t}) = 1
          /\ Len(ticks[t].scanned) = ticks[t].pos
          /\ Len(ticks[t].outs) = ticks[t].pos - 1
    /\ lastTick.id # 0 =>
          /\ Len(lastTick.scanned) = Len(lastTick.registry)
          /\ Len(lastTick.outs) = Len(lastTick.registry)
          /\ \A i \in DOMAIN lastTick.scanned :
                lastTick.scanned[i].projName = lastTick.registry[i].projName

\* C8 witness: a tick ended whose first scan failed and whose second scan
\* ran and returned.
C8_Witness ==
    lastTick.id # 0 /\ lastTick.outs = <<FALSE, TRUE>>

\* C9: the (project name, manifest) pairs a tick scans are the registry's
\* entries at the moment the tick started: those of a tick in flight are a
\* prefix of that snapshot, those of a tick that ended are all of it.
C9_TickIteratesSnapshot ==
    /\ \A t \in DOMAIN ticks :
          /\ Len(ticks[t].scanned) <= Len(ticks[t].snap)
          /\ ticks[t].scanned = SubSeq(ticks[t].snap, 1, Len(ticks[t].scanned))
    /\ lastTick.id # 0 => lastTick.scanned = lastTick.snap

\* C10: for every project name whose history file is absent or readable,
\* GET answers 200 with the results appended to its key, newest first; so
\* the answer is empty when nothing is stored, a result just appended is
\* element 0, and the elements after it are the history as it was, in order.
C10_AppendThenList ==
    /\ \A n \in ParamNames :
          files[KeyOf(n)] # CorruptFile =>
              /\ getScans(files, n).status = 200
              /\ getScans(files, n).scans = Reverse(appended[KeyOf(n)])
              /\ ~files[KeyOf(n)].exists => getScans(files, n).scans = <<>>
    /\ (last.op = "GET" /\ last.status = 200) =>
          last.scans = Reverse(appended[KeyOf(last.name)])
    /\ (ScanEnded /\ last.error = "") =>
          /\ getScans(files, last.projName).scans[1] = last.result[1]
          /\ Tail(getScans(files, last.projName).scans)
               = Reverse(SubSeq(appended[KeyOf(last.projName)], 1,
                                Len(appended[KeyOf(last.projName)]) - 1))

\* C10 witness: GET answered two results appended by two scans.
C10_Witness ==
    /\ last.op = "GET" /\ Len(last.scans) = 2
    /\ last.scans[1] = appended[KeyOf(last.name)][2]
    /\ last.scans[2] = appended[KeyOf(last.name)][1]

\* C11: a run whose audit gave a document, for a project whose stored
\* history does not parse as a list of results, returns its result, and the
\* project's stored history is then the one-element list of that result.
HistoryCorrupt(file) == file.exists /\ ~(JSONparse(file).ok /\ file.array)

C11_CorruptHistoryTreatedAsEmpty ==
    [][(/\ last' # last /\ last'.op = "scan"
        /\ auditStep(last'.exit, last'.stdout).ok
        /\ HistoryCorrupt(files[KeyOf(last'.projName)]))
       => /\ last'.error = ""
          /\ last'.result # None
          /\ files'[KeyOf(last'.projName)] = JsonFile(<<last'.result[1]>>)]_vars

\* C12: a POST /scan without a manifest is answered 400 and changes
\* neither the registry, the runs, the workspaces nor the history files; a
\* manual run that ends with an error is answered 500, and one that returns
\* is answered 200 with its ScanResult.
C12_PostScanStatusCodes ==
    [][/\ \A n \in BodyNames :
              PostScan(n, None) =>
                  /\ last'.op = "POST" /\ last'.status = 400
                  /\ UNCHANGED <<files, tmp, monitoredProjects, runs, ticks,
                                 nextId, appended>>
       /\ (last' # last /\ last'.op = "POST") =>
              /\ last'.status = 400
              /\ UNCHANGED <<files, tmp, monitoredProjects, runs, ticks,
                             nextId, appended>>
       /\ \A id \in DOMAIN runs' : runs'[id].packageJson \in {Manifest1, Manifest2}
       /\ (last' # last /\ last'.op = "scan" /\ last'.tag = "MANUAL") =>
              /\ last'.status \in {200, 500}
              /\ last'.status = 500 <=> last'.error # ""
              /\ last'.status = 200 <=>
                    /\ last'.result # None
                    /\ last'.result[1].projectId = last'.id
                    /\ Head(ReadHistory(files'[KeyOf(last'.projName)]))
                          = last'.result[1]]_vars

\* C12 witness: a request without a manifest was answered 400 while a
\* project was registered and a scan was in flight.
C12_Witness ==
    /\ last.op = "POST" /\ last.status = 400
    /\ monitoredProjects # <<>> /\ runs # <<>> /\ tmp # {}

\* the name a request is registered under: the caller's name, else the
\* manifest's declared name, else the default name
ResolvedName(n, m) ==
    IF Truthy(n) THEN n[1] ELSE IF Truthy(m.name) THEN m.name[1] ELSE DefaultName

\* the manifests a registry holds for a project name
Lookup(registry, projName) ==
    {registry[i].data.packageJson :
        i \in {j \in DOMAIN registry : registry[j].projName = projName}}

\* C13: a POST /scan with a manifest leaves the registry with exactly one
\* entry for the resolved project name, holding that request's manifest,
\* and with every other name's entry as it was, before the run it starts
\* has taken a step; the end of a manual run, by return or by error, leaves
\* the registry as it is, with an entry for the run's project.
C13_RegistrationIsUpsert ==
    [][/\ \A n \in BodyNames, m \in {Manifest1, Manifest2} :
              PostScan(n, Some(m)) =>
                  LET p == ResolvedName(n, m)
                  IN  /\ Lookup(monitoredProjects', p) = {m}
                      /\ Cardinality({i \in DOMAIN monitoredProjects' :
                                         monitoredProjects'[i].projName = p}) = 1
                      /\ \A q \in ParamNames \ {p} :
                            Lookup(monitoredProjects', q)
                              = Lookup(monitoredProjects, q)
                      /\ {monitoredProjects'[i].projName :
                              i \in DOMAIN monitoredProjects'} \subseteq ParamNames
                      /\ nextId \in DOMAIN runs' /\ nextId \notin DOMAIN runs
                      /\ runs'[nextId].pc = "install"
                      /\ runs'[nextId].projName = p
                      /\ runs'[nextId].packageJson = m
       /\ (last' # last /\ last'.op = "scan" /\ last'.tag = "MANUAL") =>
              /\ monitoredProjects' = monitoredProjects
              /\ Lookup(monitoredProjects', last'.projName) # {}]_vars

\* C13 witness: a manual run of a project ended with an error after a later
\* request had replaced the project's manifest.
C13_Witness ==
    /\ ScanEnded /\ last.tag = "MANUAL" /\ last.error # ""
    /\ last.packageJson = Manifest1
    /\ Lookup(monitoredProjects, last.projName) = {Manifest2}

RegisteredNames(registry) == {registry[i].projName : i \in DOMAIN registry}

\* C14: the registry changes only in a step in which a manual request
\* starts its run; a timer firing, the end of a scheduled scan and the end
\* of a tick leave it unchanged; no step takes a registered name away.
C14_RegistryReadOnlyToScheduler ==
    [][/\ monitoredProjects' # monitoredProjects =>
              /\ nextId \in DOMAIN runs' /\ nextId \notin DOMAIN runs
              /\ runs'[nextId].tag = "MANUAL"
       /\ RegisteredNames(monitoredProjects)
              \subseteq RegisteredNames(monitoredProjects')
       /\ Len(monitoredProjects) <= Len(monitoredProjects')
       /\ nextTick' # nextTick => monitoredProjects' = monitoredProjects
       /\ lastTick' # lastTick => monitoredProjects' = monitoredProjects
       /\ (last' # last /\ last'.op = "scan" /\ last'.tag = "MONITOR") =>
              monitoredProjects' = monitoredProjects]_vars

\* C14 witness: a tick over two registered projects ended, its first scan
\* having returned and its second having failed, and the registry is the
\* one the tick ended with.
C14_Witness ==
    /\ lastTick.id # 0 /\ lastTick.outs = <<TRUE, FALSE>>
    /\ Len(monitoredProjects) = 2
    /\ lastTick.registry = monitoredProjects

\* C15: whenever a project is registered and the timer has a firing numbered
\* t ahead, a scheduled scan of that project, started in the tick of firing
\* t with the manifest the registry holds for it, is eventually in flight,
\* whatever became of the scans before it.
C15_RegisteredProjectsAreRescanned ==
    \A t \in 1..LiveTicks, p \in {NameA, DefaultName} :
        (nextTick = t /\ p \in RegisteredNames(monitoredProjects))
        ~> (\E id \in DOMAIN runs :
                /\ runs[id].tag = "MONITOR" /\ runs[id].tick = t
                /\ runs[id].projName = p /\ runs[id].pc = "install"
                /\ Lookup(monitoredProjects, p) = {runs[id].packageJson})

\* C15 witness: in the second tick the scan of the second registered
\* project is in flight, a scheduled scan having failed just before.
C15_Witness ==
    /\ ScanEnded /\ last.tag = "MONITOR" /\ last.error # ""
    /\ Len(monitoredProjects) = 2
    /\ \E id \in DOMAIN runs :
          /\ runs[id].tag = "MONITOR" /\ runs[id].tick = 1
          /\ runs[id].projName = monitoredProjects[2].projName

IsPrefix(a, b) == Len(a) <= Len(b) /\ a = SubSeq(b, 1, Len(a))

\* C16: a run starts with a fresh identifier, its workspace allocated, at
\* the resolution; it goes from the resolution to the audit once and never
\* back; it ends from the audit only, and once ended it never runs again.
\* The steps of a run that ended are an initial part of allocate, resolve,
\* audit, extract, score, persist, teardown, return: all of them when it
\* returned, and none after the failing one when it ended with an error.
C16_StepsSequentialNoRetry ==
    [][/\ \A id \in 1..MaxRuns :
              /\ (id \notin DOMAIN runs /\ id \in DOMAIN runs') =>
                    /\ id = nextId /\ nextId' < id
                    /\ runs'[id].pc = "install" /\ ~runs'[id].installFailed
                    /\ id \in tmp' /\ id \notin tmp
              /\ (id \in DOMAIN runs /\ id \in DOMAIN runs') =>
                    \/ runs'[id].pc = runs[id].pc
                    \/ runs[id].pc = "install" /\ runs'[id].pc = "audit"
              /\ (id \in DOMAIN runs /\ id \notin DOMAIN runs') =>
                    /\ runs[id].pc = "audit"
                    /\ last'.op = "scan" /\ last'.id = id
              /\ (id > nextId /\ id \notin DOMAIN runs) => id \notin DOMAIN runs'
       /\ (last' # last /\ last'.op = "scan") =>
              /\ IsPrefix(last'.steps, FullSteps)
              /\ last'.id \in DOMAIN runs /\ last'.id \notin DOMAIN runs'
              /\ last'.error = "" <=> last'.steps = FullSteps
              /\ last'.error # "" => "return" \notin Range(last'.steps)]_vars

\* C16 witness: a scheduled run whose resolution had failed ended in a hard
\* audit failure, after its audit step and before any extraction.
C16_Witness ==
    /\ ScanEnded /\ last.tag = "MONITOR" /\ last.installFailed
    /\ last.error # "" /\ last.steps = <<"allocate", "resolve", "audit">>
    /\ last.id \notin DOMAIN runs

\* C17: the end of a run, manual or scheduled, is decided by the run's
\* project name and by what npm audit answered, the same way for both
\* triggers: its steps, its error, its result up to the scan identifier, what
\* it writes to the history files and whether its workspace stays.  A
\* scheduled run is given the very name and manifest of the registry entry,
\* and both kinds of run start at the resolution.
C17_TriggerChangesNothing ==
    [][/\ (last' # last /\ last'.op = "scan") =>
              LET a == auditStep(last'.exit, last'.stdout)
                  res == BuildResult(last'.id, last'.projName, a.auditJson)
              IN  /\ last'.tag \in {"MANUAL", "MONITOR"}
                  /\ last'.error = a.error
                  /\ last'.steps = IF a.ok THEN FullSteps
                                   ELSE SubSeq(FullSteps, 1, 3)
                  /\ last'.result = IF a.ok THEN Some(res) ELSE None
                  /\ files' = IF a.ok
                              THEN saveScanHistory(files, last'.projName, res)
                              ELSE files
                  /\ (last'.id \in tmp') = ~a.ok
       /\ \A id \in DOMAIN runs' :
              /\ id \notin DOMAIN runs =>
                    runs'[id].pc = "install" /\ ~runs'[id].installFailed
              /\ runs'[id].tag = "MONITOR" =>
                    LET tk == ticks'[runs'[id].tick]
                    IN  /\ runs'[id].projName = tk.scanned[tk.pos].projName
                        /\ runs'[id].packageJson
                              = tk.scanned[tk.pos].data.packageJson]_vars

\* C17 witness: a scheduled run ended whose result is, but for the scan
\* identifier, the result the manual run of the same project stored before.
C17_Witness ==
    /\ ScanEnded /\ last.tag = "MONITOR" /\ last.error = ""
    /\ LET h == appended[KeyOf(last.projName)]
       IN  /\ Len(h) = 2
           /\ h[2] = last.result[1]
           /\ h[1].projectId # h[2].projectId
           /\ h[1].vulnerabilities # <<>>
           /\ [h[1] EXCEPT !.projectId = h[2].projectId] = h[2]

\* C18: every run in flight has its own workspace, named by its scan
\* identifier, which no earlier run had; the identifiers of the stored
\* results are pairwise different, each that of a run that has ended.
C18_WorkspacesNeverShared ==
    /\ \A id \in DOMAIN runs : id \in tmp /\ id > nextId
    /\ \A dir \in tmp : dir > nextId
    /\ ScanEnded => last.id \notin DOMAIN runs /\ last.id > nextId
    /\ \A k1 \in Keys, k2 \in Keys :
          \A i \in DOMAIN ReadHistory(files[k1]), j \in DOMAIN ReadHistory(files[k2]) :
              ReadHistory(files[k1])[i].projectId = ReadHistory(files[k2])[j].projectId
                  => (k1 = k2 /\ i = j)
    /\ \A k \in Keys :
          \A i \in DOMAIN ReadHistory(files[k]) :
              /\ ReadHistory(files[k])[i].projectId > nextId
              /\ ReadHistory(files[k])[i].projectId \notin DOMAIN runs

\* C18 witness: two scans are in flight at once while results of two earlier
\* scans are stored.
C18_Witness ==
    /\ Cardinality(DOMAIN runs) = 2 /\ Cardinality(tmp) >= 2
    /\ \E k \in Keys : Len(ReadHistory(files[k])) = 2

\* the integer nearest to n / d, a half going up
RoundHalfUp(n, d) == (2 * n + d) \div (2 * d)

\* C19: for severity counts with a positive total, computeRiskScore is
\* 100 * (4*critical + 3*high + 2*moderate + low) / (4 * total) rounded to
\* the nearest integer, a half going up.
C19_RiskScoreIsRoundedRatio ==
    last.op = "score" =>
        LET c == last.counts
            total == c.critical + c.high + c.moderate + c.low
        IN  total > 0 =>
                last.score = RoundHalfUp(100 * (4 * c.critical + 3 * c.high
                                                + 2 * c.moderate + c.low),
                                         4 * total)

\* C20: the risk score of every tuple of severity counts is an integer from
\* 0 to 100, and 0 when the four counts are 0; so is the risk score of
\* every result a run returns and of every stored result.
C20_RiskScoreInRange ==
    /\ last.op = "score" =>
          /\ last.score \in 0..100
          /\ last.counts = [critical |-> 0, high |-> 0, moderate |-> 0, low |-> 0]
                => last.score = 0
    /\ (ScanEnded /\ last.result # None) =>
          last.result[1].summary.riskScore \in 0..100
    /\ \A k \in Keys :
          \A i \in DOMAIN ReadHistory(files[k]) :
              ReadHistory(files[k])[i].summary.riskScore \in 0..100

\* C20 witness: a stored result of MaxCount critical advisories and no other
\* has the risk score 100.
C20_Witness ==
    \E k \in Keys :
        /\ Len(ReadHistory(files[k])) = 1
        /\ ReadHistory(files[k])[1].summary.critical = MaxCount
        /\ ReadHistory(files[k])[1].summary.totalVulnerabilities = MaxCount
        /\ ReadHistory(files[k])[1].summary.riskScore = 100

\* the four severity counts of a summary or of buildSeverityCounts, added up
SumOfCounts(c) == c.critical + c.high + c.moderate + c.low

\* C21: the four counts buildSeverityCounts makes of the records extracted
\* from an audit document add up to the number of those records; in every
\* result a run returns and in every stored result, critical + high +
\* moderate + low of the summary equals its totalVulnerabilities, which is
\* the length of its vulnerabilities list.
C21_CountsSumToRecords ==
    /\ last.op = "extracted" => SumOfCounts(last.counts) = Len(last.vulns)
    /\ (ScanEnded /\ last.result # None) =>
          LET r == last.result[1]
          IN  /\ SumOfCounts(r.summary) = r.summary.totalVulnerabilities
              /\ r.summary.totalVulnerabilities = Len(r.vulnerabilities)
    /\ \A k \in Keys :
          \A i \in DOMAIN ReadHistory(files[k]) :
              LET r == ReadHistory(files[k])[i]
              IN  /\ SumOfCounts(r.summary) = r.summary.totalVulnerabilities
                  /\ r.summary.totalVulnerabilities = Len(r.vulnerabilities)

\* C21 witness: a stored result of three records, one of them with the raw
\* severity 'info', whose summary totals three.
C21_Witness ==
    \E k \in Keys :
        /\ Len(ReadHistory(files[k])) = 1
        /\ LET r == ReadHistory(files[k])[1]
           IN  /\ Len(r.vulnerabilities) = 3
               /\ \E i \in DOMAIN r.vulnerabilities :
                      r.vulnerabilities[i].severity = Info
               /\ r.summary.totalVulnerabilities = 3

\* the package names of an audit document
PackageNames(doc) ==
    IF doc.vulnerabilities = None THEN {}
    ELSE {doc.vulnerabilities[1][i].name : i \in DOMAIN doc.vulnerabilities[1]}

\* the dependency records that bear a name
DepsNamed(deps, name) == {j \in DOMAIN deps : deps[j].name = name}

\* C22: for every audit document, every package name of a record of
\* extractVulnerabilitiesFromAudit is the name of exactly one record of
\* extractDependenciesFromAudit; every package of the document has exactly
\* one dependency record, and every dependency record counts the
\* vulnerability records of its package.
C22_DependenciesMatchVulnerabilities ==
    last.op = "extracted" =>
        /\ \A i \in DOMAIN last.vulns :
              Cardinality(DepsNamed(last.deps, last.vulns[i].package)) = 1
        /\ \A n \in PackageNames(last.doc) :
              Cardinality(DepsNamed(last.deps, n)) = 1
        /\ \A j \in DOMAIN last.deps :
              /\ last.deps[j].name \in PackageNames(last.doc)
              /\ last.deps[j].vulnerabilities =
                    Cardinality({i \in DOMAIN last.vulns :
                                    last.vulns[i].package = last.deps[j].name})

FourSeverities == {Critical, High, Moderate, Low}

\* the records of a list whose stored severity is sev
StoredAs(vulns, sev) == {i \in DOMAIN vulns : vulns[i].severity = sev}

\* a result whose records all store one of the four severities and whose
\* summary counts the records by the severity they store
SeveritiesNormalized(r) ==
    /\ \A i \in DOMAIN r.vulnerabilities :
          r.vulnerabilities[i].severity \in FourSeverities
    /\ r.summary.critical = Cardinality(StoredAs(r.vulnerabilities, Critical))
    /\ r.summary.high = Cardinality(StoredAs(r.vulnerabilities, High))
    /\ r.summary.moderate = Cardinality(StoredAs(r.vulnerabilities, Moderate))
    /\ r.summary.low = Cardinality(StoredAs(r.vulnerabilities, Low))

\* C23: every vulnerability record of every result a run returns and of
\* every stored result has the severity critical, high, moderate or low,
\* whatever severities the audit document carries, and the summary counts
\* the records by that stored severity.
C23_StoredSeverityIsNormalized ==
    /\ (ScanEnded /\ last.result # None) => SeveritiesNormalized(last.result[1])
    /\ \A k \in Keys :
          \A i \in DOMAIN ReadHistory(files[k]) :
              SeveritiesNormalized(ReadHistory(files[k])[i])

\* a text that holds the word w in any case, compared in upper case
ContainsWord(raw, w) ==
    raw # None /\ includes(toUpperCase(raw[1]), toUpperCase(w))

\* C24: normalizeSeverity answers critical, high, moderate or low for every
\* input: critical when the text holds 'critical' in any case; else high
\* when it holds 'high'; else moderate when it holds 'moderate' or
\* 'medium'; else low, also for an absent or empty input.  Applied to its
\* own answer it gives that answer again.
C24_NormalizeSeverityPriority ==
    last.op = "severity" =>
        LET c == ContainsWord(last.raw, Critical)
            h == ContainsWord(last.raw, High)
            m == ContainsWord(last.raw, Moderate) \/ ContainsWord(last.raw, Medium)
        IN  /\ last.severity \in FourSeverities
            /\ last.severity = Critical <=> c
            /\ last.severity = High <=> (~c /\ h)
            /\ last.severity = Moderate <=> (~c /\ ~h /\ m)
            /\ last.severity = Low <=> (~c /\ ~h /\ ~m)
            /\ last.again = last.severity

\* C24 witness: 'MEDIUM HIGH' was normalized to high.
C24_Witness ==
    /\ last.op = "severity"
    /\ last.raw = Some(toUpperCase(Medium) \o <<" ">> \o toUpperCase(High))
    /\ last.severity = High

\* C25: deriving the key of a key gives the key again; an undefined or
\* empty name gives the default key 'My_Project', and the default key
\* derives to itself.
C25_KeyDerivationIdempotent ==
    last.op = "key" =>
        /\ last.again = last.key
        /\ ~Truthy(last.name) => last.key = DefaultKey
        /\ last.name = Some(DefaultKey) => last.key = DefaultKey

\* C25 witness: the key of an undefined name was derived: it is the
\* default key, and so is the key derived from it.
C25_Witness ==
    /\ last.op = "key"
    /\ last.name = None
    /\ last.key = DefaultKey
    /\ last.again = DefaultKey

\* the text the replacement is applied to
KeySource(name) == IF Truthy(name) THEN name[1] ELSE DefaultName

\* a text of letters, digits, '_' and '-' only, and not empty
SafeKey(k) == k # <<>> /\ \A i \in DOMAIN k : k[i] \in SafeChars

\* C26: every key derived from a name is not empty and made of letters,
\* digits, '_' and '-' only, every other character of the name (separator,
\* dot, blank) being replaced by '_'; so a scan writes and GET /scans
\* reads only files of the history directory: a file elsewhere is never
\* changed and never answered.
C26_KeysStayInHistoryDir ==
    /\ last.op = "key" =>
          LET src == KeySource(last.name)
          IN  /\ SafeKey(last.key)
              /\ Len(last.key) = Len(src)
              /\ \A i \in DOMAIN src :
                    last.key[i] = IF src[i] \in SafeChars THEN src[i] ELSE "_"
    /\ \A k \in DOMAIN files : ~SafeKey(k) => files[k] = ObjectFile
    /\ \A k \in DOMAIN appended : ~SafeKey(k) => appended[k] = <<>>
    /\ last.op = "GET" => last.status = 200 /\ last.array

\* C26 witness: a scan under a name with a separator has been stored under
\* its key and listed by GET /scans for that name.
C26_Witness ==
    /\ last.op = "GET"
    /\ ~SafeKey(last.name)
    /\ \E i \in DOMAIN last.name : last.name[i] = "/"
    /\ Len(last.scans) = 1
    /\ files[safeProjectName(Some(last.name))].exists

\* the scans in flight that a tick started
MonitorRuns == {id \in DOMAIN runs : runs[id].tag = "MONITOR"}

\* C27: at most one setInterval callback is in progress at any time, and so
\* at most one MONITOR scan is in flight.
C27_AtMostOneTickInProgress ==
    /\ Cardinality(DOMAIN ticks) <= 1
    /\ Cardinality(MonitorRuns) <= 1

\* C28: histories are kept apart by project name: every entry of the list
\* GET /scans answers for a name is a result of a scan of that name, so a
\* result produced for one name is never listed for another.
C28_HistoriesIsolatedByName ==
    (last.op = "GET" /\ last.status = 200) =>
        \A i \in DOMAIN last.scans : last.scans[i].projectName = last.name

\* C29: every run that returns a result had an audit whose stdout was not
\* empty and parsed; a run whose audit printed nothing returns no result
\* and stores none, whatever the exit code.
C29_SuccessNeedsAuditOutput ==
    ScanEnded =>
        /\ last.result # None => (~last.stdout.empty /\ last.stdout.valid)
        /\ last.stdout.empty =>
              /\ last.result = None
              /\ last.error # ""
              /\ \A k \in Keys : Count(ReadHistory(files[k]), last.id) = 0

\* a summary or a tuple of counts whose vulnerabilities are all low
AllLow(c) == c.low > 0 /\ c.critical = 0 /\ c.high = 0 /\ c.moderate = 0

\* C30, as stated: the risk score is 0 exactly when there are no
\* vulnerabilities, lies in 25..100 otherwise, and is 25 exactly when every
\* vulnerability is low.
C30_Score25IffAllLow ==
    /\ last.op = "score" =>
          /\ last.score = 0 <=> SumOfCounts(last.counts) = 0
          /\ SumOfCounts(last.counts) > 0 => last.score \in 25..100
          /\ last.score = 25 <=> AllLow(last.counts)
    /\ (ScanEnded /\ last.result # None) =>
          LET m == last.result[1].summary
          IN  /\ m.riskScore = 0 <=> m.totalVulnerabilities = 0
              /\ m.riskScore \notin 1..24
              /\ m.riskScore = 25 <=> AllLow(m)

\* C30, amended: the risk score is 0 exactly when there are no
\* vulnerabilities and lies in 25..100 otherwise, so no result has a risk
\* score from 1 to 24; it is 25 whenever every vulnerability is low.
C30_ScoreZeroOrAtLeast25 ==
    /\ last.op = "score" =>
          /\ last.score = 0 <=> SumOfCounts(last.counts) = 0
          /\ SumOfCounts(last.counts) > 0 => last.score \in 25..100
          /\ AllLow(last.counts) => last.score = 25
    /\ (ScanEnded /\ last.result # None) =>
          LET m == last.result[1].summary
          IN  /\ m.riskScore = 0 <=> m.totalVulnerabilities = 0
              /\ m.riskScore \notin 1..24
              /\ AllLow(m) => m.riskScore = 25
    /\ \A k \in Keys :
          \A i \in DOMAIN ReadHistory(files[k]) :
              LET m == ReadHistory(files[k])[i].summary
              IN  /\ m.riskScore = 0 <=> m.totalVulnerabilities = 0
                  /\ m.riskScore \notin 1..24
                  /\ AllLow(m) => m.riskScore = 25

\* C30 witness: a stored result of ManyLow low advisories and no other has
\* the risk score 25.
C30_Witness ==
    \E k \in Keys :
        /\ Len(ReadHistory(files[k])) = 1
        /\ LET m == ReadHistory(files[k])[1].summary
           IN  /\ m.low = ManyLow
               /\ m.totalVulnerabilities = ManyLow
               /\ m.riskScore = 25
====
